---- MODULE Spec2Model ----
(***************************************************************************)
(* Virtual physics lab (src/script.js): the simple-pendulum and flywheel   *)
(* experiment sessions and the least-squares routine they share.           *)
(*                                                                         *)
(* Numbers.  A JavaScript number is modelled as an exact rational <<n, d>> *)
(* in lowest terms with d > 0, so that rounding of IEEE doubles is not     *)
(* part of the model.  Math.sqrt appears in the source only where its      *)
(* result is squared again (t*t, T*T, omega*omega, Math.pow(.., 2)) or     *)
(* compared with 0, so a quantity that is a square root is carried by its  *)
(* square: the fields t2 of a reading hold t*t.                            *)
(***************************************************************************)
EXTENDS Integers, Sequences, FiniteSets

VARIABLES
    view,             \* which block is visible: "main-menu" or an experiment id
    sp_state,         \* src/script.js:131  (readings, mode, gravity)
    sp_environment,   \* D.environmentSelect.value
    sp_listeners,     \* listeners registered on the pendulum controls
    fw_state,         \* src/script.js:293  (readings, mode, model)
    FLYWHEEL_MODELS,  \* src/script.js:295  (the 'unknown' entry is mutated)
    fw_modelSelect,   \* D.modelSelect.value
    fw_listeners,     \* listeners registered on the flywheel controls
    notification,     \* what the last event passed to showNotification, or ""
    event,            \* the DOM event handled last
    calls,            \* how often each function ran while handling it
    lr_x, lr_y,       \* arguments of the last linearRegression call
    lr_out            \* its result

navVars == <<view>>
spVars  == <<sp_state, sp_environment, sp_listeners>>
fwVars  == <<fw_state, FLYWHEEL_MODELS, fw_modelSelect, fw_listeners>>
logVars == <<notification, event, calls>>
lrVars  == <<lr_x, lr_y, lr_out>>
vars    == <<view, sp_state, sp_environment, sp_listeners, fw_state,
             FLYWHEEL_MODELS, fw_modelSelect, fw_listeners, notification,
             event, calls, lr_x, lr_y, lr_out>>

---------------------------------------------------------------------------
(* Exact rational arithmetic.                                              *)

RECURSIVE GCD(_, _)
GCD(a, b) == IF b = 0 THEN a ELSE GCD(b, a % b)

Abs(a) == IF a < 0 THEN -a ELSE a

Rat(n, d) ==
    LET s == IF d < 0 THEN -1 ELSE 1
        g == GCD(Abs(n), Abs(d))
    IN  <<(s * n) \div g, (s * d) \div g>>

Num(n) == <<n, 1>>
Zero == Num(0)
One  == Num(1)

RNeg(a) == <<-a[1], a[2]>>

RAdd(a, b) ==
    LET g == GCD(a[2], b[2])
    IN  Rat(a[1] * (b[2] \div g) + b[1] * (a[2] \div g), (a[2] \div g) * b[2])

RSub(a, b) == RAdd(a, RNeg(b))

RMul(a, b) ==
    LET g1 == GCD(Abs(a[1]), b[2])
        g2 == GCD(Abs(b[1]), a[2])
    IN  Rat((a[1] \div g1) * (b[1] \div g2), (a[2] \div g2) * (b[2] \div g1))

\* a / b for b # 0
RDiv(a, b) == RMul(a, IF b[1] < 0 THEN <<-b[2], -b[1]>> ELSE <<b[2], b[1]>>)

RSq(a) == RMul(a, a)

RIsZero(a) == a[1] = 0
RPos(a)    == a[1] > 0
RLt(a, b)  == RSub(a, b)[1] < 0
RLe(a, b)  == RSub(a, b)[1] <= 0

\* Math.PI is a double, hence a rational; 22/7 stands for it.
PI == Rat(22, 7)

---------------------------------------------------------------------------
(* linearRegression                                                        *)

RECURSIVE SumSeq(_)
SumSeq(s) == IF s = <<>> THEN Zero ELSE RAdd(s[1], SumSeq(Tail(s)))

Products(x, y) == [i \in 1..Len(x) |-> RMul(x[i], y[i])]

\* the sums of the loop, lines 103-107
LRSums(x, y) ==
    [n      |-> Len(x),
     sum_x  |-> SumSeq(x),
     sum_y  |-> SumSeq(y),
     sum_xy |-> SumSeq(Products(x, y)),
     sum_xx |-> SumSeq(Products(x, x)),
     sum_yy |-> SumSeq(Products(y, y))]

lr_denominatorSumX(s) == RSub(RMul(Num(s.n), s.sum_xx), s.sum_x)

\* n * sum_xx - sum_x * sum_x
lr_denominator(s) == RSub(RMul(Num(s.n), s.sum_xx), RSq(s.sum_x))

\* n * sum_xy - sum_x * sum_y
lr_covariance(s) == RSub(RMul(Num(s.n), s.sum_xy), RMul(s.sum_x, s.sum_y))

lr_slope(s) == RDiv(lr_covariance(s), lr_denominator(s))

lr_interceptNotAveraged(s, slope) == RSub(s.sum_y, RMul(slope, s.sum_x))

lr_intercept(s, slope) == RDiv(RSub(s.sum_y, RMul(slope, s.sum_x)), Num(s.n))

lr_r2OverX(s) ==
    LET y_spread == RSub(RMul(Num(s.n), s.sum_yy), RSq(s.sum_y))
    IN  IF RIsZero(y_spread) THEN One
        ELSE RDiv(RSq(lr_covariance(s)),
                  RSub(RMul(Num(s.n), s.sum_xx), RSq(s.sum_x)))

\* r2_denominator is Math.sqrt(radicand), which is 0 exactly when the
\* radicand is, and Math.pow(c / Math.sqrt(radicand), 2) is c*c / radicand
lr_r2(s) ==
    LET radicand == RMul(RSub(RMul(Num(s.n), s.sum_xx), RSq(s.sum_x)),
                         RSub(RMul(Num(s.n), s.sum_yy), RSq(s.sum_y)))
    IN  IF RIsZero(radicand) THEN One
        ELSE RDiv(RSq(lr_covariance(s)), radicand)

linearRegression(x, y) ==
    LET s == LRSums(x, y)
        slope == lr_slope(s)
    IN  IF s.n = 0 THEN [slope |-> Zero, intercept |-> Zero, r2 |-> Zero]
        ELSE IF RIsZero(lr_denominator(s))
        THEN [slope |-> Zero, intercept |-> Zero, r2 |-> Zero]
        ELSE [slope |-> slope, intercept |-> lr_intercept(s, slope),
              r2 |-> lr_r2(s)]

---------------------------------------------------------------------------
(* Values the page can supply.  The markup (slider ranges, option lists)   *)
(* is not part of src/, so these are small samples of what the handlers    *)
(* can read from the controls.                                             *)

\* outcomes of Math.random(), a number in [0, 1)
MathRandom == {Zero, Rat(1, 2)}

\* parseFloat / parseInt of a field that holds no number
NaN == <<0, 0>>
isNaN(a) == a[2] = 0

\* parseFloat of an option value of #sp-environment other than 'unknown'
parseFloat(text) == IF text = "9.8" THEN Rat(49, 5) ELSE NaN

EnvironmentOptions == {"unknown", "9.8"}
ModelOptions       == {"A", "B", "unknown"}

\* What sp_addReading reads from the controls: the sliders and, in manual
\* mode, the two manual fields.
SpInputs(mode) ==
    [oscillations : {1, 2},
     length       : IF mode = "simulation"
                    THEN {Rat(1, 2), Num(1), Rat(3, 2)} ELSE {Num(1)},
     manualLength : IF mode = "simulation"
                    THEN {NaN} ELSE {NaN, Num(-1), Num(1)},
     manualTime   : IF mode = "simulation" THEN {NaN} ELSE {NaN, Num(2)},
     random       : IF mode = "simulation" THEN MathRandom ELSE {Zero}]

---------------------------------------------------------------------------
(* Event listeners.  A listener is <<function, closure>>: a function       *)
(* declaration is one object (closure 0), an arrow function is a new       *)
(* object each time the expression is evaluated (closure = the number of   *)
(* the init call that evaluated it).  addEventListener ignores a listener  *)
(* that is already registered on the target for the event.                 *)

addEventListenerAlways(listeners, target, listener) ==
    [listeners EXCEPT ![target] = Append(@, listener)]

addEventListener(listeners, target, listener) ==
    IF \E i \in 1..Len(listeners[target]) : listeners[target][i] = listener
    THEN listeners
    ELSE [listeners EXCEPT ![target] = Append(@, listener)]

Functions ==
    {"initPendulumExperiment", "sp_setMode", "sp_setSimulationGravity",
     "sp_addReading", "initFlywheelExperiment", "fw_setMode",
     "fw_setFlywheelModel", "fw_addReading"}

NoCalls == [f \in Functions |-> 0]

Called(c, f) == [c EXCEPT !.calls[f] = @ + 1]

showNotification(c, message) == [c EXCEPT !.note = message]

---------------------------------------------------------------------------
(* Experiment 1: simple pendulum.  A handler maps a context                *)
(* [st, env, ls, note, calls] to the set of contexts it can leave behind   *)
(* (one per outcome of Math.random).                                       *)

SpTargets ==
    {"sp-sim-mode-btn", "sp-manual-mode-btn", "sp-environment",
     "sp-add-reading-btn", "sp-reset-btn"}

SpCtx == [st |-> sp_state, env |-> sp_environment, ls |-> sp_listeners,
          note |-> "", calls |-> NoCalls]

sp_setMode(c, mode) ==
    [Called(c, "sp_setMode") EXCEPT !.st.mode = mode]

sp_setSimulationGravity(c) ==
    LET envVal == c.env
        drawn  == IF envVal = "unknown"
                  THEN {RAdd(Num(5), RMul(rnd, Num(15))) : rnd \in MathRandom}
                  ELSE {parseFloat(envVal)}
    IN  {[Called(c, "sp_setSimulationGravity") EXCEPT !.st.gravity = g] :
            g \in drawn}

\* readings.sort((a, b) => a.L - b.L)
RECURSIVE InsertByL(_, _)
InsertByL(sorted, r) ==
    IF sorted = <<>> THEN <<r>>
    ELSE IF RLt(r.L, sorted[1].L) THEN <<r>> \o sorted
    ELSE <<sorted[1]>> \o InsertByL(Tail(sorted), r)

RECURSIVE SortByL(_)
SortByL(s) ==
    IF s = <<>> THEN <<>>
    ELSE InsertByL(SortByL(SubSeq(s, 1, Len(s) - 1)), s[Len(s)])

\* .forEach((r, i) => r.sno = i + 1)
Renumber(s) == [i \in 1..Len(s) |-> [s[i] EXCEPT !.sno = i]]

PushOnly(readings, r) == Append(readings, r)

PushSortRenumber(readings, r) == Renumber(SortByL(Append(readings, r)))

\* t_measured * t_measured in simulation mode:
\* (n * 2*PI*sqrt(L/g) * (1 + (random - 0.5) * 0.04)) squared
sp_simulatedTimeSq(n, L, gravity, random) ==
    LET T_theoretical_sq == RMul(RMul(Num(4), RSq(PI)), RDiv(L, gravity))
        error == RAdd(One, RMul(RSub(random, Rat(1, 2)), Rat(4, 100)))
    IN  RMul(RMul(Num(n * n), T_theoretical_sq), RSq(error))

\* T * T for T = t_measured / n
sp_periodSqNotDivided(t2, n) == t2

sp_periodSq(t2, n) == RDiv(t2, Num(n * n))

sp_isDuplicateNever(readings, L) == FALSE

sp_isDuplicate(readings, L) ==
    \E i \in 1..Len(readings) : readings[i].L = L

\* A reading {sno, L, t, T, T2}: t2 holds t*t, and T2 = T*T = t*t / (n*n).
sp_addReading(c0, d) ==
    LET c   == Called(c0, "sp_addReading")
        n   == d.oscillations
        sim == c.st.mode = "simulation"
        L   == IF sim THEN d.length ELSE d.manualLength
        t2  == IF sim
               THEN sp_simulatedTimeSq(n, L, c.st.gravity, d.random)
               ELSE RSq(d.manualTime)
        invalid == /\ ~sim
                   /\ \/ isNaN(L) \/ isNaN(d.manualTime)
                      \/ ~RPos(L) \/ ~RPos(d.manualTime)
        T2  == sp_periodSq(t2, n)
    IN  IF invalid
        THEN showNotification(c, "Please enter valid positive numbers.")
        ELSE IF sp_isDuplicate(c.st.readings, L)
        THEN showNotification(c, "A reading for this length already exists.")
        ELSE [c EXCEPT !.st.readings =
                 PushSortRenumber(@, [sno |-> 0, L |-> L, t2 |-> t2, T2 |-> T2])]

initPendulumExperiment(c0) ==
    LET c      == Called(c0, "initPendulumExperiment")
        serial == Len(c.ls["sp-environment"]) + 1
        ls1 == addEventListener(c.ls, "sp-sim-mode-btn", <<"arrow@163", serial>>)
        ls2 == addEventListener(ls1, "sp-manual-mode-btn", <<"arrow@164", serial>>)
        ls3 == addEventListener(ls2, "sp-environment", <<"arrow@166", serial>>)
        ls4 == addEventListener(ls3, "sp-add-reading-btn", <<"sp_addReading", 0>>)
        ls5 == addEventListener(ls4, "sp-reset-btn", <<"initPendulumExperiment", 0>>)
        c1  == [c EXCEPT !.st = [readings |-> <<>>, mode |-> "simulation",
                                 gravity |-> Zero],
                         !.ls = ls5,
                         !.env = "unknown"]
    IN  sp_setSimulationGravity(sp_setMode(c1, "simulation"))

sp_onEnvironmentChangeKeepsReadings(c) == sp_setSimulationGravity(c)

\* the 'change' listener of #sp-environment
sp_onEnvironmentChange(c) ==
    sp_setSimulationGravity([c EXCEPT !.st.readings = <<>>])

\* sp_updateUI: the result shown once there are two readings
sp_fit == linearRegression([i \in 1..Len(sp_state.readings) |-> sp_state.readings[i].T2],
                           [i \in 1..Len(sp_state.readings) |-> sp_state.readings[i].L])

g_exp == RMul(RMul(sp_fit.slope, Num(4)), RSq(PI))

\* one listener of a pendulum control, invoked
SpInvoke(listener, c, d) ==
    CASE listener[1] = "arrow@163" -> {sp_setMode(c, "simulation")}
      [] listener[1] = "arrow@164" -> {sp_setMode(c, "manual")}
      [] listener[1] = "arrow@166" -> sp_onEnvironmentChange(c)
      [] listener[1] = "sp_addReading" -> {sp_addReading(c, d)}
      [] listener[1] = "initPendulumExperiment" -> initPendulumExperiment(c)

\* the listeners of the target run one after the other, in registration order
RECURSIVE SpDispatch(_, _, _)
SpDispatch(ls, C, d) ==
    IF ls = <<>> THEN C
    ELSE SpDispatch(Tail(ls), UNION {SpInvoke(ls[1], c, d) : c \in C}, d)

SpCommit(c, ev) ==
    /\ sp_state' = c.st
    /\ sp_environment' = c.env
    /\ sp_listeners' = c.ls
    /\ notification' = c.note
    /\ calls' = c.calls
    /\ event' = ev

NoInput == CHOOSE d \in SpInputs("simulation") : TRUE

SpEvent(target, c0, d) ==
    /\ view = "simple-pendulum"
    /\ \E c \in SpDispatch(sp_listeners[target], {c0}, d) : SpCommit(c, target)
    /\ UNCHANGED <<navVars, fwVars, lrVars>>

---------------------------------------------------------------------------
(* Experiment 2: flywheel.  A context is [st, models, sel, ls, note,       *)
(* calls]; st.model names the entry of FLYWHEEL_MODELS that                *)
(* fw_state.model refers to (the object is shared, not copied).            *)

G_ACCELERATION == Rat(981, 100)

FLYWHEEL_MODELS_initial ==
    [key \in ModelOptions |->
        CASE key = "A" -> [I |-> Rat(5, 1000), Tf |-> Rat(2, 1000)]
          [] key = "B" -> [I |-> Rat(15, 1000), Tf |-> Rat(4, 1000)]
          [] key = "unknown" -> [I |-> Zero, Tf |-> Zero]]

\* The values are kept to those for which every intermediate product stays
\* within TLC's 32-bit integers; for the same reason the error on t is left
\* at none (Math.random() = 0.5).
FwInputs(mode) ==
    [radius     : {Num(4), Num(5)},
     n1         : {0, 5},
     mass       : IF mode = "simulation" THEN {Num(1), Num(150)} ELSE {Num(150)},
     manualMass : IF mode = "simulation" THEN {NaN} ELSE {NaN, Num(150)},
     manualT    : IF mode = "simulation" THEN {NaN} ELSE {Rat(1, 2), Num(5)},
     manualN2   : IF mode = "simulation" THEN {NaN} ELSE {Zero, Num(20)},
     random_t   : {Rat(1, 2)},
     random_n2  : IF mode = "simulation"
                  THEN {Rat(1, 2), Rat(5, 6)} ELSE {Rat(1, 2)}]

FwTargets ==
    {"fw-sim-mode-btn", "fw-manual-mode-btn", "fw-model",
     "fw-add-reading-btn", "fw-reset-btn"}

FwCtx == [st |-> fw_state, models |-> FLYWHEEL_MODELS, sel |-> fw_modelSelect,
          ls |-> fw_listeners, note |-> "", calls |-> NoCalls]

fw_setMode(c, mode) ==
    [Called(c, "fw_setMode") EXCEPT !.st.mode = mode]

fw_setFlywheelModelAnyKey(c0) ==
    LET c        == Called(c0, "fw_setFlywheelModel")
        modelKey == c.sel
    IN  {[c EXCEPT !.models[modelKey] =
                       [I  |-> RAdd(Rat(3, 1000), RMul(r1, Rat(15, 1000))),
                        Tf |-> RAdd(Rat(1, 1000), RMul(r2, Rat(5, 1000)))],
                   !.st.model = modelKey] :
            r1 \in MathRandom, r2 \in MathRandom}

fw_setFlywheelModel(c0) ==
    LET c        == Called(c0, "fw_setFlywheelModel")
        modelKey == c.sel
    IN  IF modelKey = "unknown"
        THEN {[c EXCEPT !.models["unknown"] =
                            [I  |-> RAdd(Rat(3, 1000), RMul(r1, Rat(15, 1000))),
                             Tf |-> RAdd(Rat(1, 1000), RMul(r2, Rat(5, 1000)))],
                        !.st.model = modelKey] :
                 r1 \in MathRandom, r2 \in MathRandom}
        ELSE {[c EXCEPT !.st.model = modelKey]}

\* h = 2 * Math.PI * r_m * n1
fw_height(r_m, n1) == RMul(RMul(Num(2), PI), RMul(r_m, Num(n1)))

\* a = (m_kg * G - Tf / r_m) / (m_kg + I / (r_m * r_m))
fw_acceleration(m_kg, r_m, model) ==
    RDiv(RSub(RMul(m_kg, G_ACCELERATION), RDiv(model.Tf, r_m)),
         RAdd(m_kg, RDiv(model.I, RSq(r_m))))

\* the error factor 1 + (Math.random() - 0.5) * 0.03
fw_error(random) == RAdd(One, RMul(RSub(random, Rat(1, 2)), Rat(3, 100)))

\* lines 373-378 for a > 0: t*t and n2 as recorded
fw_simulate(a, h, r_m, model, random_t, random_n2) ==
    LET t2          == RDiv(RMul(Num(2), h), a)
        omega2      == RDiv(RMul(RSq(a), t2), RSq(r_m))
        theta_after == RDiv(RMul(model.I, omega2), RMul(Num(2), model.Tf))
        n2          == RDiv(theta_after, RMul(Num(2), PI))
    IN  [t2 |-> RMul(t2, RSq(fw_error(random_t))),
         n2 |-> RMul(n2, fw_error(random_n2))]

fw_term1(h, n1, n2) == RMul(RMul(Num(2), h), RAdd(Num(n1), n2))

fw_term2_no2h(m_kg, r_m, h, t2, n2) ==
    RMul(RMul(RMul(m_kg, RSq(r_m)), RMul(G_ACCELERATION, t2)), n2)

fw_term2(m_kg, r_m, h, t2, n2) ==
    RMul(RMul(RMul(m_kg, RSq(r_m)),
              RSub(RMul(G_ACCELERATION, t2), RMul(Num(2), h))),
         n2)

fw_nonPhysicalNever(I_calc) == FALSE

\* I_calc <= 0
fw_nonPhysical(I_calc) == RLe(I_calc, Zero)

fw_addReading(c0, d) ==
    LET c    == Called(c0, "fw_addReading")
        r_m  == RDiv(d.radius, Num(100))
        n1   == d.n1
        h    == fw_height(r_m, n1)
        sim  == c.st.mode = "simulation"
        m_kg == IF sim THEN RDiv(d.mass, Num(1000))
                ELSE IF isNaN(d.manualMass) THEN NaN
                ELSE RDiv(d.manualMass, Num(1000))
        model == c.models[c.st.model]
        a    == fw_acceleration(m_kg, r_m, model)
        fall == fw_simulate(a, h, r_m, model, d.random_t, d.random_n2)
        t2   == IF sim THEN fall.t2 ELSE RSq(d.manualT)
        n2   == IF sim THEN fall.n2 ELSE d.manualN2
        invalid == /\ ~sim
                   /\ \/ isNaN(m_kg) \/ isNaN(d.manualT) \/ isNaN(d.manualN2)
                      \/ ~RPos(m_kg) \/ ~RPos(d.manualT) \/ ~RPos(d.manualN2)
        term1  == fw_term1(h, n1, n2)
        term2  == fw_term2(m_kg, r_m, h, t2, n2)
        I_calc == RDiv(term2, term1)
    IN  IF sim /\ RLe(a, Zero)
        THEN showNotification(c, "Mass is too light.")
        ELSE IF invalid
        THEN showNotification(c, "Please enter valid positive numbers.")
        ELSE IF RIsZero(term1)
        THEN showNotification(c, "Invalid parameters.")
        ELSE IF fw_nonPhysical(I_calc)
        THEN showNotification(c, "Non-physical result. Check inputs.")
        ELSE [c EXCEPT !.st.readings =
                 Append(@, [m |-> m_kg, h |-> h, t2 |-> t2, n2 |-> n2,
                            I |-> I_calc])]

initFlywheelExperiment(c0) ==
    LET c      == Called(c0, "initFlywheelExperiment")
        serial == Len(c.ls["fw-model"]) + 1
        ls1 == addEventListener(c.ls, "fw-sim-mode-btn", <<"arrow@327", serial>>)
        ls2 == addEventListener(ls1, "fw-manual-mode-btn", <<"arrow@328", serial>>)
        ls3 == addEventListener(ls2, "fw-add-reading-btn", <<"fw_addReading", 0>>)
        ls4 == addEventListener(ls3, "fw-reset-btn", <<"initFlywheelExperiment", 0>>)
        ls5 == addEventListener(ls4, "fw-model", <<"arrow@332", serial>>)
        c1  == [c EXCEPT !.st = [readings |-> <<>>, mode |-> "simulation",
                                 model |-> "undefined"],
                         !.ls = ls5]
    IN  fw_setFlywheelModel(fw_setMode(c1, "simulation"))

\* the 'change' listener of #fw-model
fw_onModelChange(c) ==
    fw_setFlywheelModel([c EXCEPT !.st.readings = <<>>])

FwInvoke(listener, c, d) ==
    CASE listener[1] = "arrow@327" -> {fw_setMode(c, "simulation")}
      [] listener[1] = "arrow@328" -> {fw_setMode(c, "manual")}
      [] listener[1] = "arrow@332" -> fw_onModelChange(c)
      [] listener[1] = "fw_addReading" -> {fw_addReading(c, d)}
      [] listener[1] = "initFlywheelExperiment" -> initFlywheelExperiment(c)

RECURSIVE FwDispatch(_, _, _)
FwDispatch(ls, C, d) ==
    IF ls = <<>> THEN C
    ELSE FwDispatch(Tail(ls), UNION {FwInvoke(ls[1], c, d) : c \in C}, d)

FwCommit(c, ev) ==
    /\ fw_state' = c.st
    /\ FLYWHEEL_MODELS' = c.models
    /\ fw_modelSelect' = c.sel
    /\ fw_listeners' = c.ls
    /\ notification' = c.note
    /\ calls' = c.calls
    /\ event' = ev

FwEvent(target, c0, d) ==
    /\ view = "flywheel"
    /\ \E c \in FwDispatch(fw_listeners[target], {c0}, d) : FwCommit(c, target)
    /\ UNCHANGED <<navVars, spVars, lrVars>>

\* the model parameters in use: fw_state.model.I and fw_state.model.Tf
fw_model == FLYWHEEL_MODELS[fw_state.model]

---------------------------------------------------------------------------
(* Bounds of the exploration.                                              *)

\* how often an experiment is initialised (opened or reset) in one run
MaxInits == 2
\* how many flywheel readings are collected before the next reset
MaxReadings == 1
\* how many points are handed to linearRegression
MaxPoints == 3

---------------------------------------------------------------------------
(* The state after the script has loaded: no experiment opened yet, both   *)
(* state objects are {} and no listener is registered on a control.        *)

Init ==
    /\ view = "main-menu"
    /\ sp_state = [readings |-> <<>>, mode |-> "undefined", gravity |-> Zero]
    /\ sp_environment \in EnvironmentOptions
    /\ sp_listeners = [t \in SpTargets |-> <<>>]
    /\ fw_state = [readings |-> <<>>, mode |-> "undefined", model |-> "undefined"]
    /\ FLYWHEEL_MODELS = FLYWHEEL_MODELS_initial
    /\ fw_modelSelect \in ModelOptions
    /\ fw_listeners = [t \in FwTargets |-> <<>>]
    /\ notification = ""
    /\ event = "load"
    /\ calls = NoCalls
    /\ lr_x = <<>>
    /\ lr_y = <<>>
    /\ lr_out = [slope |-> Zero, intercept |-> Zero, r2 |-> Zero]

---------------------------------------------------------------------------
(* Navigation.                                                             *)

showExperiment(experimentId) ==
    /\ view' = experimentId
    /\ event' = "showExperiment"
    /\ IF experimentId = "simple-pendulum"
       THEN /\ Len(sp_listeners["sp-environment"]) < MaxInits
            /\ \E c \in initPendulumExperiment(SpCtx) :
                  /\ sp_state' = c.st
                  /\ sp_environment' = c.env
                  /\ sp_listeners' = c.ls
                  /\ notification' = c.note
                  /\ calls' = c.calls
            /\ UNCHANGED <<fwVars, lrVars>>
       ELSE /\ experimentId = "flywheel"
            /\ Len(fw_listeners["fw-model"]) < MaxInits
            /\ \E c \in initFlywheelExperiment(FwCtx) :
                  /\ fw_state' = c.st
                  /\ FLYWHEEL_MODELS' = c.models
                  /\ fw_modelSelect' = c.sel
                  /\ fw_listeners' = c.ls
                  /\ notification' = c.note
                  /\ calls' = c.calls
            /\ UNCHANGED <<spVars, lrVars>>

showMainMenu ==
    /\ view # "main-menu"
    /\ view' = "main-menu"
    /\ event' = "showMainMenu"
    /\ calls' = NoCalls
    /\ notification' = ""
    /\ UNCHANGED <<spVars, fwVars, lrVars>>

---------------------------------------------------------------------------
(* Events on the pendulum controls.                                        *)

SpSimModeClick    == SpEvent("sp-sim-mode-btn", SpCtx, NoInput)

SpManualModeClick == SpEvent("sp-manual-mode-btn", SpCtx, NoInput)

SpEnvironmentChange ==
    \E value \in EnvironmentOptions \ {sp_environment} :
        SpEvent("sp-environment", [SpCtx EXCEPT !.env = value], NoInput)

SpAddReadingWith(d) == SpEvent("sp-add-reading-btn", SpCtx, d)

SpAddReadingClick ==
    \E d \in SpInputs(sp_state.mode) : SpAddReadingWith(d)

SpResetClick ==
    /\ Len(sp_listeners["sp-environment"]) < MaxInits
    /\ SpEvent("sp-reset-btn", SpCtx, NoInput)

---------------------------------------------------------------------------
(* Events on the flywheel controls.                                        *)

NoFwInput == CHOOSE d \in FwInputs("simulation") : TRUE

FwSimModeClick    == FwEvent("fw-sim-mode-btn", FwCtx, NoFwInput)

FwManualModeClick == FwEvent("fw-manual-mode-btn", FwCtx, NoFwInput)

FwModelChange ==
    \E value \in ModelOptions \ {fw_modelSelect} :
        FwEvent("fw-model", [FwCtx EXCEPT !.sel = value], NoFwInput)

FwAddReadingWith(d) == FwEvent("fw-add-reading-btn", FwCtx, d)

FwAddReadingClick ==
    /\ \E d \in FwInputs(fw_state.mode) : FwAddReadingWith(d)
    /\ Len(fw_state'.readings) <= MaxReadings

FwResetClick ==
    /\ Len(fw_listeners["fw-model"]) < MaxInits
    /\ FwEvent("fw-reset-btn", FwCtx, NoFwInput)

---------------------------------------------------------------------------
(* linearRegression on its own: points are appended one at a time and the  *)
(* fit is recomputed over all of them.                                     *)

LRX == {Num(1), Num(2), Num(3)}
LRY == {Num(0), Num(2), Num(4), Num(6)}

LRCall(x, y) ==
    /\ lr_x' = x
    /\ lr_y' = y
    /\ lr_out' = linearRegression(x, y)
    /\ event' = "linearRegression"
    /\ UNCHANGED <<navVars, spVars, fwVars, notification, calls>>

LRAppend ==
    /\ Len(lr_x) < MaxPoints
    /\ \E a \in LRX, b \in LRY : LRCall(Append(lr_x, a), Append(lr_y, b))

LRClear == LRCall(<<>>, <<>>)

---------------------------------------------------------------------------
(* Specifications.  The two experiments share no state but `view` and the  *)
(* notification area, so each is explored in sessions that open only it.   *)

NextPendulum ==
    \/ showExperiment("simple-pendulum")
    \/ showMainMenu
    \/ SpSimModeClick
    \/ SpManualModeClick
    \/ SpEnvironmentChange
    \/ SpAddReadingClick
    \/ SpResetClick

NextFlywheel ==
    \/ showExperiment("flywheel")
    \/ showMainMenu
    \/ FwSimModeClick
    \/ FwManualModeClick
    \/ FwModelChange
    \/ FwAddReadingClick
    \/ FwResetClick

NextRegression == LRAppend \/ LRClear

\* the controls of the experiment that is not opened keep one value
InitPendulum   == Init /\ fw_modelSelect = "A"
InitFlywheel   == Init /\ sp_environment = "unknown"
InitRegression == Init /\ fw_modelSelect = "A" /\ sp_environment = "unknown"

SpecPendulum   == InitPendulum /\ [][NextPendulum]_vars
SpecFlywheel   == InitFlywheel /\ [][NextFlywheel]_vars
SpecRegression == InitRegression /\ [][NextRegression]_vars

\* A session that opens both experiments in turn on the same page: the
\* clicks on add-reading and reset of both, with one setting of the
\* oscillation count and the winding controls.
SpFewInputs ==
    {d \in SpInputs("simulation") :
        d.oscillations = 1 /\ d.random = Rat(1, 2)}

FwFewInputs ==
    {d \in FwInputs("simulation") :
        d.radius = Num(4) /\ d.n1 = 5 /\ d.random_n2 = Rat(1, 2)}

LabSpAddReadingClick == \E d \in SpFewInputs : SpAddReadingWith(d)

LabFwAddReadingClick ==
    /\ \E d \in FwFewInputs : FwAddReadingWith(d)
    /\ Len(fw_state'.readings) <= MaxReadings

NextLab ==
    \/ showExperiment("simple-pendulum")
    \/ showExperiment("flywheel")
    \/ showMainMenu
    \/ LabSpAddReadingClick
    \/ SpResetClick
    \/ LabFwAddReadingClick
    \/ FwResetClick

InitLab == Init /\ fw_modelSelect = "A" /\ sp_environment = "unknown"

SpecLab == InitLab /\ [][NextLab]_vars

---------------------------------------------------------------------------
(* Properties of the pendulum session.                                     *)

sp_lengths == {sp_state.readings[i].L : i \in 1..Len(sp_state.readings)}

\* the length sp_addReading reads for input d
SpLengthRead(d) ==
    IF sp_state.mode = "simulation" THEN d.length ELSE d.manualLength

\* C1: no two stored pendulum readings have the same length L, and a click
\* on add-reading whose length is already stored leaves the stored readings
\* (contents, order, sequence numbers) as they were.
C1_UniqueLengths ==
    /\ [](\A i, j \in 1..Len(sp_state.readings) :
             i # j => sp_state.readings[i].L # sp_state.readings[j].L)
    /\ [][\A d \in SpInputs(sp_state.mode) :
             (SpAddReadingWith(d) /\ SpLengthRead(d) \in sp_lengths)
                 => sp_state'.readings = sp_state.readings]_vars

\* a duplicate length was refused while two readings were stored
C1_Witness ==
    /\ event = "sp-add-reading-btn"
    /\ notification = "A reading for this length already exists."
    /\ Len(sp_state.readings) = 2

\* C2: the stored pendulum readings are in strictly ascending order of L and
\* their sequence numbers are 1..N in list order.
C2_SortedNumbered ==
    \A i \in 1..Len(sp_state.readings) :
        /\ sp_state.readings[i].sno = i
        /\ i < Len(sp_state.readings)
               => RLt(sp_state.readings[i].L, sp_state.readings[i + 1].L)

\* a third reading has just been inserted
C2_Witness ==
    /\ event = "sp-add-reading-btn"
    /\ notification = ""
    /\ Len(sp_state.readings) = 3

\* C6: when every stored reading has the noiseless forward time
\* t = n * 2*PI*sqrt(L/g) for the gravity g in use and an oscillation count
\* n, the estimate slope * 4*PI^2 shown for two or more readings equals g.
SpNoiseless(r) ==
    \E n \in {d.oscillations : d \in SpInputs("simulation")} :
        r.t2 = sp_simulatedTimeSq(n, r.L, sp_state.gravity, Rat(1, 2))

C6_Precondition ==
    /\ Len(sp_state.readings) >= 2
    /\ \A i \in 1..Len(sp_state.readings) : SpNoiseless(sp_state.readings[i])

C6_GravityRoundTrip == C6_Precondition => g_exp = sp_state.gravity

\* three noiseless simulated readings, taken with different counts
C6_Witness ==
    /\ Len(sp_state.readings) = 3
    /\ C6_Precondition
    /\ sp_state.readings[1].t2 = sp_state.readings[1].T2
    /\ sp_state.readings[2].t2 # sp_state.readings[2].T2
    /\ g_exp = Rat(25, 2)

---------------------------------------------------------------------------
(* Properties of linearRegression.                                         *)

LRAllEqual(s) == \A i, j \in 1..Len(s) : s[i] = s[j]

LRZeros == [slope |-> Zero, intercept |-> Zero, r2 |-> Zero]

\* C4: for no points, and for points whose x-values are all equal, the
\* result is {slope: 0, intercept: 0, r2: 0} whatever the y-values are.
C4_DegenerateFit ==
    (event = "linearRegression" /\ LRAllEqual(lr_x)) => lr_out = LRZeros

\* three points on a vertical line with different y
C4_Witness ==
    /\ event = "linearRegression"
    /\ Len(lr_x) = 3
    /\ LRAllEqual(lr_x)
    /\ ~LRAllEqual(lr_y)
    /\ lr_out = LRZeros

\* the line through the first point and the first point with another x
LRLine ==
    LET j == CHOOSE k \in 1..Len(lr_x) :
                 /\ lr_x[k] # lr_x[1]
                 /\ \A l \in 1..(k - 1) : lr_x[l] = lr_x[1]
        m == RDiv(RSub(lr_y[j], lr_y[1]), RSub(lr_x[j], lr_x[1]))
    IN  [m |-> m, c |-> RSub(lr_y[1], RMul(m, lr_x[1]))]

LROnLine ==
    \A i \in 1..Len(lr_x) :
        lr_y[i] = RAdd(RMul(LRLine.m, lr_x[i]), LRLine.c)

\* C5: for two or more points that lie on one line y = m*x + c and have at
\* least two distinct x-values, the result is slope m, intercept c, r2 1.
C5_ExactLine ==
    (event = "linearRegression" /\ ~LRAllEqual(lr_x) /\ LROnLine)
        => lr_out = [slope |-> LRLine.m, intercept |-> LRLine.c, r2 |-> One]

\* the fit of (1,2), (2,4), (3,6)
C5_Witness ==
    /\ event = "linearRegression"
    /\ lr_x = <<Num(1), Num(2), Num(3)>>
    /\ lr_y = <<Num(2), Num(4), Num(6)>>
    /\ lr_out = [slope |-> Num(2), intercept |-> Zero, r2 |-> One]

\* C9: with at least two distinct x-values r2 lies in [0, 1]; it is 1 when
\* all y-values are equal and otherwise
\* (n*Sxy - Sx*Sy)^2 / ((n*Sxx - Sx^2) * (n*Syy - Sy^2)).
C9_R2Range ==
    (event = "linearRegression" /\ ~LRAllEqual(lr_x)) =>
        LET s == LRSums(lr_x, lr_y)
            n == Num(s.n)
            c == RSub(RMul(n, s.sum_xy), RMul(s.sum_x, s.sum_y))
            vx == RSub(RMul(n, s.sum_xx), RMul(s.sum_x, s.sum_x))
            vy == RSub(RMul(n, s.sum_yy), RMul(s.sum_y, s.sum_y))
        IN  /\ RLe(Zero, lr_out.r2)
            /\ RLe(lr_out.r2, One)
            /\ LRAllEqual(lr_y) => lr_out.r2 = One
            /\ ~LRAllEqual(lr_y) => lr_out.r2 = RDiv(RMul(c, c), RMul(vx, vy))

\* a fit that is neither perfect nor flat
C9_Witness ==
    /\ event = "linearRegression"
    /\ ~LRAllEqual(lr_x)
    /\ RLt(Zero, lr_out.r2)
    /\ RLt(lr_out.r2, One)

---------------------------------------------------------------------------
(* Properties of the flywheel session.                                     *)

\* For input d read in the current state, one of the three conditions of
\* C3 holds: (i) simulation and a <= 0; or the handler gets as far as the
\* computation of I_calc (simulation with a > 0, or valid manual values)
\* and (ii) 2*h*(n1+n2) = 0 or (iii) I_calc is not positive.
FwMustReject(d) ==
    LET r_m   == RDiv(d.radius, Num(100))
        h     == fw_height(r_m, d.n1)
        sim   == fw_state.mode = "simulation"
        m_kg  == RDiv(IF sim THEN d.mass ELSE d.manualMass, Num(1000))
        a     == fw_acceleration(m_kg, r_m, fw_model)
        fall  == fw_simulate(a, h, r_m, fw_model, d.random_t, d.random_n2)
        t2    == IF sim THEN fall.t2 ELSE RSq(d.manualT)
        n2    == IF sim THEN fall.n2 ELSE d.manualN2
        denom == fw_term1(h, d.n1, n2)
        numer == fw_term2(m_kg, r_m, h, t2, n2)
        reached == IF sim THEN RPos(a)
                   ELSE /\ ~isNaN(d.manualMass) /\ RPos(d.manualMass)
                        /\ ~isNaN(d.manualT) /\ RPos(d.manualT)
                        /\ ~isNaN(d.manualN2) /\ RPos(d.manualN2)
    IN  \/ sim /\ ~RPos(a)
        \/ /\ reached
           /\ \/ RIsZero(denom)
              \/ ~RPos(RDiv(numer, denom))

\* C3: a click on add-reading records nothing and leaves fw_state.readings
\* unchanged when (i) the simulated acceleration a is <= 0, (ii) the
\* denominator 2*h*(n1+n2) is 0, or (iii) I_calc <= 0; every stored reading
\* has I > 0.
C3_RejectedNotRecorded ==
    /\ [](\A i \in 1..Len(fw_state.readings) : RPos(fw_state.readings[i].I))
    /\ [][\A d \in FwInputs(fw_state.mode) :
             (FwAddReadingWith(d) /\ FwMustReject(d))
                 => fw_state'.readings = fw_state.readings]_vars

\* a manual entry with I_calc <= 0 was refused while a reading was stored
C3_Witness ==
    /\ event = "fw-add-reading-btn"
    /\ notification = "Non-physical result. Check inputs."
    /\ Len(fw_state.readings) = 1

\* reading r is the noiseless forward result for some radius and winding
\* count n1 > 0 of the controls, the mass r.m and the model in use
FwNoiseless(r) ==
    \E d \in FwInputs("simulation") :
        LET r_m == RDiv(d.radius, Num(100))
            a   == fw_acceleration(r.m, r_m, fw_model)
            h   == fw_height(r_m, d.n1)
            fall == fw_simulate(a, h, r_m, fw_model, Rat(1, 2), Rat(1, 2))
        IN  /\ d.n1 > 0
            /\ RPos(a)
            /\ r.h = h
            /\ r.t2 = fall.t2
            /\ r.n2 = fall.n2

\* C7: a reading whose t and n2 are the noiseless forward results for the
\* model in use has the inertia estimate I_calc equal to the model's I.
C7_InertiaRoundTrip ==
    \A i \in 1..Len(fw_state.readings) :
        FwNoiseless(fw_state.readings[i])
            => fw_state.readings[i].I = fw_model.I

\* a noiseless simulated reading of a drawn ('unknown') model
C7_Witness ==
    /\ Len(fw_state.readings) = 1
    /\ fw_state.mode = "simulation"
    /\ fw_state.model = "unknown"
    /\ FwNoiseless(fw_state.readings[1])
    /\ fw_state.readings[1].I = FLYWHEEL_MODELS["unknown"].I

FwInitialised == fw_state.model # "undefined"

\* C8 as stated: while the model selector keeps its value, add-reading,
\* mode-switch and reset events leave the I and Tf of fw_state.model as
\* they were.
C8_HeldWhileSelected ==
    [][(/\ FwInitialised
        /\ event' \in {"fw-add-reading-btn", "fw-sim-mode-btn",
                       "fw-manual-mode-btn", "fw-reset-btn"}
        /\ fw_modelSelect' = fw_modelSelect)
           => fw_model' = fw_model]_vars

\* C8 amended: add-reading and mode-switch events leave the I and Tf of
\* fw_state.model as they were, and so does a reset while model A or B is
\* selected.
C8_HeldExceptUnknownReset ==
    [][(/\ FwInitialised
        /\ \/ event' \in {"fw-add-reading-btn", "fw-sim-mode-btn",
                          "fw-manual-mode-btn"}
           \/ event' = "fw-reset-btn" /\ fw_modelSelect # "unknown")
           => fw_model' = fw_model]_vars

\* a reset with model B selected, after the experiment had been set up
C8_Witness ==
    /\ event = "fw-reset-btn"
    /\ fw_modelSelect = "B"
    /\ fw_state.model = "B"
    /\ fw_model = [I |-> Rat(15, 1000), Tf |-> Rat(4, 1000)]

---------------------------------------------------------------------------
(* Randomness per selection.                                               *)

\* C10: one change event on the environment selector runs
\* sp_setSimulationGravity once, and one change event on the model selector
\* that selects 'unknown' draws (I, Tf) once.
C10_OneDrawPerChange ==
    /\ event = "sp-environment" => calls["sp_setSimulationGravity"] = 1
    /\ (event = "fw-model" /\ fw_modelSelect = "unknown")
           => calls["fw_setFlywheelModel"] = 1

---------------------------------------------------------------------------
(* Gravity and the readings taken with it.                                 *)

\* reading r is what sp_addReading stores in simulation mode with gravity g
SpGeneratedWith(r, g) ==
    \E d \in SpInputs("simulation") :
        /\ r.L = d.length
        /\ r.t2 = sp_simulatedTimeSq(d.oscillations, d.length, g, d.random)

\* reading r is what sp_addReading stores for a manual entry
SpManualEntry(r) ==
    \E d \in SpInputs("manual") :
        /\ ~isNaN(d.manualLength) /\ ~isNaN(d.manualTime)
        /\ r.L = d.manualLength
        /\ r.t2 = RSq(d.manualTime)

\* C11: sp_state.gravity changes only in steps that leave
\* sp_state.readings empty; add-reading and mode-switch events leave it
\* unchanged; every reading in the list is a manual entry or was generated
\* with the current gravity; and when an add-reading event is handled the
\* gravity is > 0, within [5, 20) while 'unknown' is selected.
C11_GravityOfReadings ==
    /\ [][sp_state'.gravity # sp_state.gravity
             => sp_state'.readings = <<>>]_vars
    /\ [][event' \in {"sp-add-reading-btn", "sp-sim-mode-btn",
                      "sp-manual-mode-btn"}
             => sp_state'.gravity = sp_state.gravity]_vars
    /\ [](\A i \in 1..Len(sp_state.readings) :
             \/ SpGeneratedWith(sp_state.readings[i], sp_state.gravity)
             \/ SpManualEntry(sp_state.readings[i]))
    /\ [](event = "sp-add-reading-btn"
             => /\ RPos(sp_state.gravity)
                /\ sp_environment = "unknown"
                      => /\ RLe(Num(5), sp_state.gravity)
                         /\ RLt(sp_state.gravity, Num(20)))

\* the environment was changed to 9.8 and two readings were then simulated
\* with that gravity
C11_Witness ==
    /\ event = "sp-add-reading-btn"
    /\ sp_environment = "9.8"
    /\ sp_state.gravity = Rat(49, 5)
    /\ sp_state.mode = "simulation"
    /\ Len(sp_state.readings) = 2
    /\ \A i \in 1..2 : SpGeneratedWith(sp_state.readings[i], Rat(49, 5))

---------------------------------------------------------------------------
(* One click, one handler.                                                 *)

\* C12: however often the experiments were opened and reset, one click on
\* the add-reading button invokes sp_addReading / fw_addReading once and
\* adds at most one reading to the list, and one click on reset runs the
\* init function once.
C12_OneClickOneHandler ==
    /\ [](/\ event = "sp-add-reading-btn" => calls["sp_addReading"] = 1
          /\ event = "fw-add-reading-btn" => calls["fw_addReading"] = 1
          /\ event = "sp-reset-btn" => calls["initPendulumExperiment"] = 1
          /\ event = "fw-reset-btn" => calls["initFlywheelExperiment"] = 1)
    /\ [][/\ event' = "sp-add-reading-btn"
               => Len(sp_state'.readings) <= Len(sp_state.readings) + 1
          /\ event' = "fw-add-reading-btn"
               => Len(fw_state'.readings) <= Len(fw_state.readings) + 1]_vars

\* both experiments have been initialised MaxInits times, the pendulum
\* holds a reading, and a click has just added a flywheel reading
C12_Witness ==
    /\ event = "fw-add-reading-btn"
    /\ calls["fw_addReading"] = 1
    /\ Len(fw_listeners["fw-model"]) = MaxInits
    /\ Len(fw_state.readings) = 1
    /\ Len(sp_listeners["sp-environment"]) = MaxInits
    /\ Len(sp_state.readings) >= 1

====
